---- MODULE Spec2Model ----
(***************************************************************************)
(* Model of the background service worker of the Deep Focus Mode browser   *)
(* extension (src/browser-extension/src/content/content.js, lines 250 on): *)
(* navigation interception, the decision cache, the per-domain delay       *)
(* windows, the override flow and the local event log.                     *)
(*                                                                         *)
(* Time is Date.now() in milliseconds.  Every handler runs to its next     *)
(* await (or storage callback) as one action; the awaited authority call,  *)
(* the override report and the storage requests complete in later actions. *)
(***************************************************************************)
EXTENDS Integers, Sequences, FiniteSets, TLC

\* ------------------------------------------------------------ constants

CACHE_DURATION == 30000

MsPerSecond == 1000

SecondsPerMinute == 60

MaxEvents == 100

\* ------------------------------------------------------------ bounds

\* Events from outside delivered in one run: navigations, messages and clock
\* advances (completions of what they started are not counted).
MaxSteps == 3

\* Amounts (ms) by which the clock advances between two handlers.
TickSteps == {1500, 30000}

\* ------------------------------------------------------------ values

Tabs == {1}

Url(scheme, host, path) == [scheme |-> scheme, host |-> host, path |-> path]

\* Targets that pass every filter of the navigation listener.
Targets ==
  { Url("https", "a.com", "/1"), Url("https", "a.com", "/2"),
    Url("https", "b.com", "/1") }

\* Navigations that the listener (or its event filter) drops.
ExemptUrls ==
  { Url("http", "localhost", "/"), Url("http", "127.0.0.1", "/"),
    Url("chrome-extension", "extid", "/popup.html") }

NavUrls == Targets \cup ExemptUrls

NoUrl == Url("", "", "")

\* new URL(url).hostname
hostname(url) == url.host

Hosts == { hostname(u) : u \in Targets }

Dec(sb, a, ds, msg, rft) ==
  [should_block |-> sb, action |-> a, delay_seconds |-> ds,
   reminder_message |-> msg, remaining_focus_time |-> rft]

\* checkBlock's null (the catch branch), and "no decision" in the records below.
NullDecision == Dec(FALSE, "null", 0, "", 0)

DelaySeconds == {1, 2}

\* Payloads the authority may answer POST /api/check-block with.
Decisions ==
  { Dec(FALSE, "none", 0, "", 0),
    Dec(TRUE, "block", 0, "Stay focused", 0),
    Dec(TRUE, "conditional", 0, "", 125),
    Dec(TRUE, "none", 0, "", 0),
    Dec(FALSE, "block", 0, "Stay focused", 0) }
  \cup { Dec(TRUE, "delay", d, "", 0) : d \in DelaySeconds }

\* Math.ceil(a / b) for b > 0
Ceil(a, b) == -((-a) \div b)

\* ------------------------------------------------------------ state

VARIABLES
  now,              \* Date.now(), ms
  blockCache,       \* url -> {decision, timestamp}
  activeDelays,     \* hostname -> {expiresAt}
  extensionEnabled, \* the in-memory toggle
  syncEnabled,      \* chrome.storage.sync 'enabled'
  blockEvents,      \* chrome.storage.local 'blockEvents'
  storageQueue,     \* chrome.storage.local requests not yet served
  pending,          \* navigation handlers suspended in checkBlock's fetch
  reports,          \* POST /api/override requests not yet settled
  currentSession,   \* the session status last fetched from /api/status
  monitoring,       \* the setInterval of startMonitoring is running
  openReplies,      \* getRules/getStats messages whose response is still owed
  alarms,           \* names of the alarms scheduled with chrome.alarms
  last,             \* what the most recent handler did (observation)
  steps             \* events from outside delivered so far

vars ==
  << now, blockCache, activeDelays, extensionEnabled, syncEnabled, blockEvents,
     storageQueue, pending, reports, currentSession, monitoring, openReplies,
     alarms, last, steps >>

\* What the navigation, override, toggle and storage handlers never assign.
sessionVars == << currentSession, monitoring, openReplies, alarms >>

NoEntry == [has |-> FALSE, decision |-> NullDecision, timestamp |-> 0, stale |-> FALSE]

NoDelay == [has |-> FALSE, expiresAt |-> 0]

\* No chrome.tabs.update: the tab goes on loading what it was loading.
NoRedirect == [tab |-> 0, page |-> "none", url |-> NoUrl, param |-> 0, msg |-> ""]

\* The observation of a handler that did nothing observable.
Quiet(op, url) ==
  [op |-> op, url |-> url, frame |-> 0, calls |-> 0, src |-> "none",
   dec |-> NullDecision,
   fetchedAt |-> 0, stale |-> FALSE, routed |-> FALSE, redirect |-> NoRedirect,
   window |-> "none", logged |-> 0, error |-> FALSE, reply |-> "none"]

Init ==
  /\ now = 0
  /\ blockCache = [u \in Targets |-> NoEntry]
  /\ activeDelays = [h \in Hosts |-> NoDelay]
  /\ extensionEnabled = TRUE
  /\ syncEnabled = TRUE
  /\ blockEvents = << >>
  /\ storageQueue = << >>
  /\ pending = << >>
  /\ reports = 0
  /\ currentSession = "null"
  /\ monitoring = TRUE
  /\ openReplies = 0
  /\ alarms = {}
  /\ last = Quiet("init", NoUrl)
  /\ steps = 0

\* ------------------------------------------------------------ checkBlock

\* A variant of the cache test that still serves an entry exactly
\* CACHE_DURATION old.
CacheFreshInclusive(cached) == cached.has /\ now - cached.timestamp <= CACHE_DURATION

\* checkBlock's cache test: cached && Date.now() - cached.timestamp < CACHE_DURATION
CacheFresh(cached) == cached.has /\ now - cached.timestamp < CACHE_DURATION

\* blockCache.set(url, {decision, timestamp: Date.now()}); stale is history:
\* whether the query was issued before an override of the url.
CacheSet(url, decision, stale) ==
  [blockCache EXCEPT ![url] =
     [has |-> TRUE, decision |-> decision, timestamp |-> now, stale |-> stale]]

\* A variant of the catch branch that rethrows.
CheckBlockRethrow == [decision |-> NullDecision, error |-> TRUE]

\* What the catch branch of checkBlock hands back, and whether the error
\* leaves the listener.
CheckBlockCatch == [decision |-> NullDecision, error |-> FALSE]

\* ------------------------------------------------------------ the router

\* A variant of the listener's gate that looks at the action only.
ShouldEnforceByAction(decision) ==
  decision.action \in {"block", "delay", "conditional"}

\* decision && decision.should_block
ShouldEnforce(decision) == decision.action # "null" /\ decision.should_block

\* A variant of the window test that restarts the window on every delay.
DelayNeverActive(existing) == FALSE

\* existingDelay && Date.now() < existingDelay.expiresAt
DelayStillActive(existing) == existing.has /\ now < existing.expiresAt

\* A variant of the remaining time that rounds down.
RemainingSecondsFloor(existing) == (existing.expiresAt - now) \div MsPerSecond

\* Math.ceil((existingDelay.expiresAt - Date.now()) / 1000)
RemainingSeconds(existing) == Ceil(existing.expiresAt - now, MsPerSecond)

\* A variant of the new window that lasts at least one second.
NewDelayAtLeastOneSecond(delay_seconds) ==
  [has |-> TRUE,
   expiresAt |-> now + (IF delay_seconds = 0 THEN 1 ELSE delay_seconds) * MsPerSecond]

\* {expiresAt: Date.now() + delay_seconds * 1000}
NewDelay(delay_seconds) ==
  [has |-> TRUE, expiresAt |-> now + delay_seconds * MsPerSecond]

OrDefault(message, default) == IF message = "" THEN default ELSE message

\* A variant of showBlockPage that always shows the default message.
showBlockPageDefaultMessage(tabId, blockedUrl, message) ==
  [tab |-> tabId, page |-> "block", url |-> blockedUrl, param |-> 0,
   msg |-> "This site is blocked during focus time."]

\* The show* functions give the page its query parameters: url, message and
\* the number (seconds or minutes); the records hold what the page decodes.
showBlockPage(tabId, blockedUrl, message) ==
  [tab |-> tabId, page |-> "block", url |-> blockedUrl, param |-> 0,
   msg |-> OrDefault(message, "This site is blocked during focus time.")]

showDelayPage(tabId, blockedUrl, delaySeconds, message) ==
  [tab |-> tabId, page |-> "delay", url |-> blockedUrl, param |-> delaySeconds,
   msg |-> OrDefault(message, "Access will be granted soon.")]

\* A variant of showFocusRequirement that rounds the minutes down.
showFocusRequirementFloor(tabId, blockedUrl, remainingSeconds, message) ==
  [tab |-> tabId, page |-> "focus", url |-> blockedUrl,
   param |-> remainingSeconds \div SecondsPerMinute,
   msg |-> OrDefault(message, "Focus for N more minutes to unlock this site.")]

\* The default message names the minutes, which param carries.
showFocusRequirement(tabId, blockedUrl, remainingSeconds, message) ==
  [tab |-> tabId, page |-> "focus", url |-> blockedUrl,
   param |-> Ceil(remainingSeconds, SecondsPerMinute),
   msg |-> OrDefault(message, "Focus for N more minutes to unlock this site.")]

\* The chrome.tabs.update of handleBlockedNavigation; NoRedirect when the
\* switch matches no case.
Redirect(tabId, url, decision) ==
  CASE decision.action = "block" ->
         showBlockPage(tabId, url, decision.reminder_message)
    [] decision.action = "delay" ->
         IF DelayStillActive(activeDelays[hostname(url)])
         THEN showDelayPage(tabId, url, RemainingSeconds(activeDelays[hostname(url)]),
                            decision.reminder_message)
         ELSE showDelayPage(tabId, url, decision.delay_seconds, decision.reminder_message)
    [] decision.action = "conditional" ->
         showFocusRequirement(tabId, url, decision.remaining_focus_time,
                              decision.reminder_message)
    [] OTHER -> NoRedirect

\* A variant of the router that starts a window in every case of the switch.
DelaysAfterAnyAction(url, decision) ==
  IF ~DelayStillActive(activeDelays[hostname(url)])
  THEN [activeDelays EXCEPT ![hostname(url)] = NewDelay(decision.delay_seconds)]
  ELSE activeDelays

\* activeDelays after handleBlockedNavigation
DelaysAfter(url, decision) ==
  IF decision.action = "delay" /\ ~DelayStillActive(activeDelays[hostname(url)])
  THEN [activeDelays EXCEPT ![hostname(url)] = NewDelay(decision.delay_seconds)]
  ELSE activeDelays

WindowNote(url, decision) ==
  IF decision.action # "delay" THEN "none"
  ELSE IF DelayStillActive(activeDelays[hostname(url)]) THEN "kept" ELSE "created"

\* logBlockEvent up to its chrome.storage.local.get.  chrome.storage.local
\* serves its requests in the order they were issued, so the get reads what
\* the sets issued before it leave, and none issued after it: blockEvents
\* stands for the stored list as the sets issued so far leave it, and the
\* result of the get is fixed when the get is issued.
logBlockEvent(url, action) ==
  Append(storageQueue,
         [event |-> [url |-> url, action |-> action], result |-> blockEvents])

handleBlockedNavigation(tabId, url, decision) ==
  /\ activeDelays' = DelaysAfter(url, decision)
  /\ storageQueue' = logBlockEvent(url, decision.action)

\* The listener after `await checkBlock(url.href)`.
Enforce(tabId, url, decision, obs) ==
  IF ShouldEnforce(decision)
  THEN /\ handleBlockedNavigation(tabId, url, decision)
       /\ last' = [obs EXCEPT !.routed = TRUE,
                              !.redirect = Redirect(tabId, url, decision),
                              !.window = WindowNote(url, decision),
                              !.logged = 1]
  ELSE /\ last' = obs
       /\ UNCHANGED << activeDelays, storageQueue >>

\* ------------------------------------------------------------ navigation

FrameIds == {0, 1}

\* The listener's event filter {url: [{schemes: ['http', 'https']}]}
SchemeFilter(url) == url.scheme \in {"http", "https"}

\* A variant of the early returns without the main-frame test.
EarlyReturnAnyFrame(frameId, url) ==
  \/ ~extensionEnabled
  \/ hostname(url) = "localhost"
  \/ hostname(url) = "127.0.0.1"
  \/ url.scheme = "chrome-extension"

\* The listener's two early returns.
EarlyReturn(frameId, url) ==
  \/ frameId # 0
  \/ ~extensionEnabled
  \/ hostname(url) = "localhost"
  \/ hostname(url) = "127.0.0.1"
  \/ url.scheme = "chrome-extension"

Qualifies(frameId, url) == SchemeFilter(url) /\ ~EarlyReturn(frameId, url)

RemoveAt(seq, i) == [j \in 1..(Len(seq) - 1) |-> IF j < i THEN seq[j] ELSE seq[j + 1]]

\* onBeforeNavigate, dropped by the event filter or an early return.
NavFiltered(tabId, frameId, url) ==
  /\ steps < MaxSteps
  /\ ~Qualifies(frameId, url)
  /\ steps' = steps + 1
  /\ last' = [Quiet("nav", url) EXCEPT !.frame = frameId, !.src = "filtered"]
  /\ UNCHANGED << now, blockCache, activeDelays, extensionEnabled,
                  syncEnabled, blockEvents, storageQueue, pending, reports >>
  /\ UNCHANGED sessionVars

\* onBeforeNavigate, checkBlock answering from the cache.
NavCacheHit(tabId, frameId, url) ==
  /\ steps < MaxSteps
  /\ Qualifies(frameId, url)
  /\ url \in Targets
  /\ CacheFresh(blockCache[url])
  /\ steps' = steps + 1
  /\ Enforce(tabId, url, blockCache[url].decision,
             [Quiet("nav", url) EXCEPT !.frame = frameId,
                                       !.src = "cache",
                                       !.dec = blockCache[url].decision,
                                       !.fetchedAt = blockCache[url].timestamp,
                                       !.stale = blockCache[url].stale])
  /\ UNCHANGED << now, blockCache, extensionEnabled, syncEnabled,
                  blockEvents, pending, reports >>
  /\ UNCHANGED sessionVars

\* onBeforeNavigate, checkBlock suspended in fetch(/api/check-block).
NavCacheMiss(tabId, frameId, url) ==
  /\ steps < MaxSteps
  /\ Qualifies(frameId, url)
  /\ url \in Targets
  /\ ~CacheFresh(blockCache[url])
  /\ steps' = steps + 1
  /\ pending' = Append(pending, [tab |-> tabId, url |-> url, stale |-> FALSE])
  /\ last' = [Quiet("nav", url) EXCEPT !.frame = frameId, !.calls = 1]
  /\ UNCHANGED << now, blockCache, activeDelays, extensionEnabled,
                  syncEnabled, blockEvents, storageQueue, reports >>
  /\ UNCHANGED sessionVars

OnBeforeNavigate(tabId, frameId, url) ==
  \/ NavFiltered(tabId, frameId, url)
  \/ NavCacheHit(tabId, frameId, url)
  \/ NavCacheMiss(tabId, frameId, url)

\* The fetch resolves with an ok response whose JSON is `decision`: checkBlock
\* caches and returns it, and the listener goes on.
AuthorityResponse(i, decision) ==
  /\ i \in 1..Len(pending)
  /\ blockCache' = CacheSet(pending[i].url, decision, pending[i].stale)
  /\ pending' = RemoveAt(pending, i)
  /\ Enforce(pending[i].tab, pending[i].url, decision,
             [Quiet("response", pending[i].url) EXCEPT
                !.src = "authority", !.dec = decision, !.fetchedAt = now,
                !.stale = pending[i].stale])
  /\ UNCHANGED << now, extensionEnabled, syncEnabled, blockEvents, reports,
                  steps >>
  /\ UNCHANGED sessionVars

\* The fetch rejects, the response is not ok, or its body is not JSON
\* (response.json() rejects): checkBlock's catch.
AuthorityFailure(i) ==
  /\ i \in 1..Len(pending)
  /\ pending' = RemoveAt(pending, i)
  /\ Enforce(pending[i].tab, pending[i].url, CheckBlockCatch.decision,
             [Quiet("failure", pending[i].url) EXCEPT
                !.error = CheckBlockCatch.error])
  /\ UNCHANGED << now, blockCache, extensionEnabled, syncEnabled,
                  blockEvents, reports, steps >>
  /\ UNCHANGED sessionVars

\* ------------------------------------------------------------ messages

\* A variant of logOverride that also stores an override record locally.
logOverrideLocally(url) ==
  /\ reports' = reports + 1
  /\ storageQueue' =
       Append(storageQueue,
              [event |-> [url |-> url, action |-> "override"], result |-> blockEvents])
  /\ UNCHANGED blockEvents

\* logOverride: one fire-and-forget POST /api/override; nothing is stored.
logOverride(url) ==
  /\ reports' = reports + 1
  /\ UNCHANGED << blockEvents, storageQueue >>

\* A variant of the override's deletions that drops every cache entry of
\* the url's domain.
OverrideDeletesDomain(url) ==
  /\ activeDelays' = [activeDelays EXCEPT ![url.host] = NoDelay]
  /\ blockCache' = [u \in DOMAIN blockCache |->
                      IF u.host = url.host THEN NoEntry ELSE blockCache[u]]

\* activeDelays.delete(domain); blockCache.delete(request.url)
OverrideDeletes(url) ==
  /\ activeDelays' = [activeDelays EXCEPT ![hostname(url)] = NoDelay]
  /\ blockCache' = [blockCache EXCEPT ![url] = NoEntry]

\* sendResponse({success: true}), called right after logOverride returns.
OverrideReply == "success"

\* onMessage 'overrideBlock'.  A query for the url still in flight was issued
\* before this override (history); the observation notes what was removed.
OverrideBlock(url) ==
  /\ steps < MaxSteps
  /\ steps' = steps + 1
  /\ OverrideDeletes(url)
  /\ logOverride(url)
  /\ pending' = [j \in 1..Len(pending) |->
                   IF pending[j].url = url
                   THEN [pending[j] EXCEPT !.stale = TRUE] ELSE pending[j]]
  /\ last' = [Quiet("override", url) EXCEPT
                !.reply = OverrideReply,
                !.src = IF blockCache[url].has THEN "removed" ELSE "none",
                !.dec = blockCache[url].decision,
                !.fetchedAt = blockCache[url].timestamp,
                !.window = IF activeDelays[hostname(url)].has
                           THEN "removed" ELSE "none"]
  /\ UNCHANGED << now, extensionEnabled, syncEnabled >>
  /\ UNCHANGED sessionVars

\* A variant of the report's .catch that lets the rejection escape.
ReportRethrow == [error |-> TRUE]

\* .catch(error => console.error(...)): whether a rejected report escapes.
ReportCatch == [error |-> FALSE]

\* The override report settles: resolved, or rejected into its .catch.
ReportSettled(ok) ==
  /\ reports > 0
  /\ reports' = reports - 1
  /\ last' = [Quiet("report", NoUrl) EXCEPT
                !.reply = IF ok THEN "ok" ELSE "caught",
                !.error = IF ok THEN FALSE ELSE ReportCatch.error]
  /\ UNCHANGED << now, blockCache, activeDelays, extensionEnabled,
                  syncEnabled, blockEvents, storageQueue, pending, steps >>
  /\ UNCHANGED sessionVars

\* onMessage 'toggleExtension'
ToggleExtension ==
  /\ steps < MaxSteps
  /\ steps' = steps + 1
  /\ extensionEnabled' = ~extensionEnabled
  /\ syncEnabled' = extensionEnabled'
  /\ last' = [Quiet("toggle", NoUrl) EXCEPT
                !.reply = IF extensionEnabled' THEN "enabled" ELSE "disabled"]
  /\ UNCHANGED << now, blockCache, activeDelays, blockEvents, storageQueue,
                  pending, reports >>
  /\ UNCHANGED sessionVars

\* ------------------------------------------------------------ storage

\* A variant of the callback that drops the newest entry above 100 entries.
PushEventDropNewest(events, event) ==
  IF Len(Append(events, event)) > MaxEvents
  THEN SubSeq(Append(events, event), 1, MaxEvents)
  ELSE Append(events, event)

\* The get callback of logBlockEvent: push, then shift above 100 entries.
PushEvent(events, event) ==
  IF Len(Append(events, event)) > MaxEvents
  THEN Tail(Append(events, event))
  ELSE Append(events, event)

\* The callback of the oldest outstanding get runs and issues its set.
StorageServe ==
  /\ storageQueue # << >>
  /\ blockEvents' = PushEvent(Head(storageQueue).result, Head(storageQueue).event)
  /\ storageQueue' = Tail(storageQueue)
  /\ last' = Quiet("storage", NoUrl)
  /\ UNCHANGED << now, blockCache, activeDelays, extensionEnabled,
                  syncEnabled, pending, reports, steps >>
  /\ UNCHANGED sessionVars

\* ------------------------------------------------------------ time

Tick(d) ==
  /\ steps < MaxSteps
  /\ steps' = steps + 1
  /\ now' = now + d
  /\ last' = Quiet("tick", NoUrl)
  /\ UNCHANGED << blockCache, activeDelays, extensionEnabled, syncEnabled,
                  blockEvents, storageQueue, pending, reports >>
  /\ UNCHANGED sessionVars

\* ------------------------------------------------------------ specification

Next ==
  \/ \E t \in Tabs, f \in FrameIds, u \in NavUrls : OnBeforeNavigate(t, f, u)
  \/ \E i \in 1..Len(pending), d \in Decisions : AuthorityResponse(i, d)
  \/ \E i \in 1..Len(pending) : AuthorityFailure(i)
  \/ \E u \in Targets : OverrideBlock(u)
  \/ \E ok \in BOOLEAN : ReportSettled(ok)
  \/ ToggleExtension
  \/ StorageServe
  \/ \E d \in TickSteps : Tick(d)

Spec == Init /\ [][Next]_vars

\* ------------------------------------------------------------ a long log

\* The stored log after n enforcement events of earlier runs.
FilledLog(n) ==
  [k \in 1..n |->
     [url |-> IF k % 3 = 0 THEN Url("https", "a.com", "/1")
              ELSE IF k % 3 = 1 THEN Url("https", "a.com", "/2")
              ELSE Url("https", "b.com", "/1"),
      action |-> IF k % 2 = 0 THEN "block" ELSE "delay"]]

\* Lengths the stored log starts with: one below the cap, and at the cap.
LogFill == {MaxEvents - 1, MaxEvents}

\* Smaller input sets for the specifications below.
FewUrls == {Url("https", "a.com", "/1"), Url("http", "localhost", "/")}

FewDecisions == {Dec(TRUE, "block", 0, "Stay focused", 0), Dec(TRUE, "delay", 1, "", 0)}

\* The service worker starting with a log near its cap in chrome.storage.local.
InitLog ==
  /\ now = 0
  /\ blockCache = [u \in Targets |-> NoEntry]
  /\ activeDelays = [h \in Hosts |-> NoDelay]
  /\ extensionEnabled = TRUE
  /\ syncEnabled = TRUE
  /\ blockEvents \in { FilledLog(n) : n \in LogFill }
  /\ storageQueue = << >>
  /\ pending = << >>
  /\ reports = 0
  /\ currentSession = "null"
  /\ monitoring = TRUE
  /\ openReplies = 0
  /\ alarms = {}
  /\ last = Quiet("init", NoUrl)
  /\ steps = 0

NextLog ==
  \/ \E t \in Tabs, f \in FrameIds, u \in FewUrls : OnBeforeNavigate(t, f, u)
  \/ \E i \in 1..Len(pending), d \in FewDecisions : AuthorityResponse(i, d)
  \/ \E i \in 1..Len(pending) : AuthorityFailure(i)
  \/ StorageServe
  \/ \E d \in TickSteps : Tick(d)

SpecLog == InitLog /\ [][NextLog]_vars

\* ------------------------------------------------------------ lifecycle

\* The browser stops the idle service worker and starts it again for the
\* next event: the top-level declarations run again, chrome.storage stays.
Restart ==
  /\ steps < MaxSteps
  /\ pending = << >>
  /\ storageQueue = << >>
  /\ reports = 0
  /\ steps' = steps + 1
  /\ blockCache' = [u \in Targets |-> NoEntry]
  /\ activeDelays' = [h \in Hosts |-> NoDelay]
  /\ extensionEnabled' = TRUE
  /\ currentSession' = "null"
  /\ monitoring' = FALSE
  /\ openReplies = 0
  /\ last' = Quiet("restart", NoUrl)
  /\ UNCHANGED << now, syncEnabled, blockEvents, storageQueue, pending, reports,
                  openReplies, alarms >>

\* if (!settings.enabled) chrome.storage.sync.set({enabled: true})
InstalledEnabled(stored) == IF ~stored THEN TRUE ELSE stored

\* onInstalled for an update (or a browser update): 'enabled' is in
\* chrome.storage.sync since the first install.
OnInstalled ==
  /\ steps < MaxSteps
  /\ steps' = steps + 1
  /\ syncEnabled' = InstalledEnabled(syncEnabled)
  /\ monitoring' = TRUE
  /\ last' = [Quiet("installed", NoUrl) EXCEPT
                !.reply = IF syncEnabled THEN "kept" ELSE "reset"]
  /\ UNCHANGED << now, blockCache, activeDelays, extensionEnabled, blockEvents,
                  storageQueue, pending, reports, currentSession, openReplies,
                  alarms >>

\* contextMenus.onClicked for 'toggle-focus-mode'
ContextMenuToggle ==
  /\ steps < MaxSteps
  /\ steps' = steps + 1
  /\ extensionEnabled' = ~extensionEnabled
  /\ syncEnabled' = extensionEnabled'
  /\ last' = [Quiet("menu", NoUrl) EXCEPT
                !.reply = IF extensionEnabled' THEN "enabled" ELSE "disabled"]
  /\ UNCHANGED << now, blockCache, activeDelays, blockEvents, storageQueue,
                  pending, reports >>
  /\ UNCHANGED sessionVars

NextLifecycle ==
  \/ \E t \in Tabs, f \in FrameIds, u \in FewUrls : OnBeforeNavigate(t, f, u)
  \/ \E i \in 1..Len(pending), d \in FewDecisions : AuthorityResponse(i, d)
  \/ \E i \in 1..Len(pending) : AuthorityFailure(i)
  \/ ToggleExtension
  \/ ContextMenuToggle
  \/ OnInstalled
  \/ Restart
  \/ StorageServe
  \/ \E d \in TickSteps : Tick(d)

SpecLifecycle == Init /\ [][NextLifecycle]_vars

\* ------------------------------------------------------------ payloads

\* JSON bodies of an ok response that are not a decision: {} and
\* {"should_block": true}.  Destructuring gives undefined for what is missing;
\* "undefined" stands for the missing action, which matches no case.
MalformedPayloads ==
  { Dec(FALSE, "undefined", 0, "", 0), Dec(TRUE, "undefined", 0, "", 0) }

\* remaining_focus_time values of conditional decisions.
FocusSeconds == {0, 1, 59, 60, 61, 120, 125}

\* delay_seconds values of delay decisions, the immediate expiry among them.
PayloadDelaySeconds == {0, 1}

PayloadDecisions ==
  MalformedPayloads
    \cup { Dec(TRUE, "conditional", 0, "", s) : s \in FocusSeconds }
    \cup { Dec(TRUE, "delay", ds, "", 0) : ds \in PayloadDelaySeconds }

NextPayloads ==
  \/ \E t \in Tabs, f \in FrameIds, u \in FewUrls : OnBeforeNavigate(t, f, u)
  \/ \E i \in 1..Len(pending), d \in PayloadDecisions : AuthorityResponse(i, d)
  \/ \E i \in 1..Len(pending) : AuthorityFailure(i)
  \/ StorageServe
  \/ \E d \in TickSteps : Tick(d)

SpecPayloads == Init /\ [][NextPayloads]_vars

\* ------------------------------------------------------------ messages

\* Bodies of an ok /api/status response, by their is_actively_coding.
Sessions == {"coding", "idle"}

\* updateBadge(currentSession.is_actively_coding): the badge text.
updateBadge(session) == IF session = "coding" THEN "ON" ELSE ""

\* One run of the interval callback of startMonitoring, at the point where its
\* fetch of /api/status settles: an ok response replaces currentSession and
\* sets the badge; a failed one ("failed") is logged and changes nothing.
StatusPoll(outcome) ==
  /\ steps < MaxSteps
  /\ monitoring
  /\ steps' = steps + 1
  /\ currentSession' = IF outcome \in Sessions THEN outcome ELSE currentSession
  /\ last' = [Quiet("poll", NoUrl) EXCEPT
                !.src = IF outcome \in Sessions THEN "authority" ELSE "none",
                !.reply = IF outcome \in Sessions THEN updateBadge(outcome)
                          ELSE "none"]
  /\ UNCHANGED << now, blockCache, activeDelays, extensionEnabled, syncEnabled,
                  blockEvents, storageQueue, pending, reports, monitoring,
                  openReplies, alarms >>

\* The cases of the switch of the onMessage listener.
HandledActions ==
  {"getStatus", "toggleExtension", "overrideBlock", "getRules", "getStats"}

\* The cases that answer from a promise and return true.
AsyncActions == {"getRules", "getStats"}

\* request.action of the messages the content script and the popup send.
SentActions ==
  {"getStatus", "getStats", "toggleExtension", "overrideBlock", "checkUrl"}

\* onMessage 'getStatus': sendResponse({enabled, session}) at once.
GetStatus ==
  /\ steps < MaxSteps
  /\ steps' = steps + 1
  /\ last' = [Quiet("getStatus", NoUrl) EXCEPT
                !.reply = IF extensionEnabled THEN "enabled" ELSE "disabled",
                !.src = currentSession]
  /\ UNCHANGED << now, blockCache, activeDelays, extensionEnabled, syncEnabled,
                  blockEvents, storageQueue, pending, reports >>
  /\ UNCHANGED sessionVars

\* onMessage 'getRules' and 'getStats': the listener returns true, which keeps
\* the channel open, and the reply is owed to fetchRules() / fetchStats().
AsyncRequest(action) ==
  /\ steps < MaxSteps
  /\ action \in AsyncActions
  /\ steps' = steps + 1
  /\ openReplies' = openReplies + 1
  /\ last' = [Quiet(action, NoUrl) EXCEPT !.calls = 1, !.reply = "later"]
  /\ UNCHANGED << now, blockCache, activeDelays, extensionEnabled, syncEnabled,
                  blockEvents, storageQueue, pending, reports, currentSession,
                  monitoring, alarms >>

\* fetchRules() / fetchStats() settle (they return [] or null when the fetch
\* fails, and never reject), and .then(sendResponse) answers.
AsyncReply(ok) ==
  /\ openReplies > 0
  /\ openReplies' = openReplies - 1
  /\ last' = [Quiet("reply", NoUrl) EXCEPT
                !.reply = IF ok THEN "body" ELSE "fallback"]
  /\ UNCHANGED << now, blockCache, activeDelays, extensionEnabled, syncEnabled,
                  blockEvents, storageQueue, pending, reports, currentSession,
                  monitoring, alarms, steps >>

\* onMessage with a request.action that matches no case of the switch: the
\* listener falls out of the switch, calls no sendResponse and returns
\* undefined, which closes the channel.
UnhandledMessage(action) ==
  /\ steps < MaxSteps
  /\ action \notin HandledActions
  /\ steps' = steps + 1
  /\ last' = Quiet(action, NoUrl)
  /\ UNCHANGED << now, blockCache, activeDelays, extensionEnabled, syncEnabled,
                  blockEvents, storageQueue, pending, reports >>
  /\ UNCHANGED sessionVars

\* The decisions of the three enforcing actions.
RouterDecisions == FewDecisions \cup {Dec(TRUE, "conditional", 0, "", 125)}

NextMessages ==
  \/ \E t \in Tabs, f \in FrameIds, u \in FewUrls : OnBeforeNavigate(t, f, u)
  \/ \E i \in 1..Len(pending), d \in RouterDecisions : AuthorityResponse(i, d)
  \/ \E i \in 1..Len(pending) : AuthorityFailure(i)
  \/ \E outcome \in Sessions \cup {"failed"} : StatusPoll(outcome)
  \/ GetStatus
  \/ ToggleExtension
  \/ \E u \in Targets \cap FewUrls : OverrideBlock(u)
  \/ \E ok \in BOOLEAN : ReportSettled(ok)
  \/ \E a \in AsyncActions : AsyncRequest(a)
  \/ \E ok \in BOOLEAN : AsyncReply(ok)
  \/ \E a \in SentActions \ HandledActions : UnhandledMessage(a)
  \/ StorageServe
  \/ \E d \in TickSteps : Tick(d)

SpecMessages == Init /\ [][NextMessages]_vars

\* ------------------------------------------------------------ alarms

\* The name the onAlarm listener expects for a domain: 'delay-' + domain.
AlarmName(domain) == << "delay-", domain >>

\* alarms.onAlarm.  No statement of the worker calls chrome.alarms.create, so
\* alarms stays empty and this listener is never invoked; it is therefore no
\* disjunct of a next-state relation below.
OnAlarm(name) ==
  /\ name \in alarms
  /\ alarms' = alarms \ {name}
  /\ IF name[1] = "delay-"
     THEN /\ activeDelays' = [activeDelays EXCEPT ![name[2]] = NoDelay]
          /\ last' = [Quiet("alarm", NoUrl) EXCEPT !.reply = "Site Unblocked"]
     ELSE /\ activeDelays' = activeDelays
          /\ last' = Quiet("alarm", NoUrl)
  /\ UNCHANGED << now, blockCache, extensionEnabled, syncEnabled, blockEvents,
                  storageQueue, pending, reports, currentSession, monitoring,
                  openReplies, steps >>

\* ------------------------------------------------------------ properties

\* This step handles a navigation to u that passed the listener's filters.
NavTo(u) == last'.op = "nav" /\ last'.url = u /\ last'.src # "filtered"

\* This step hands a decision to the listener: a navigation answered from the
\* cache, or an authority response.
Decided == last'.op \in {"nav", "response"} /\ last'.src \in {"cache", "authority"}

\* What a failed authority call must leave alone.
FailureIsSilent ==
  last'.op = "failure" =>
    /\ last'.dec = NullDecision
    /\ last'.calls = 0
    /\ last'.redirect = NoRedirect
    /\ ~last'.error
    /\ blockCache' = blockCache
    /\ activeDelays' = activeDelays
    /\ storageQueue' = storageQueue
    /\ blockEvents' = blockEvents

C3_ActiveWindowNotReset ==
  [][ /\ DOMAIN activeDelays' = Hosts
      /\ \A h \in Hosts :
           ( /\ activeDelays[h].has
             /\ now < activeDelays[h].expiresAt
             /\ Decided
             /\ last'.routed
             /\ last'.dec.action = "delay"
             /\ hostname(last'.url) = h ) =>
           activeDelays'[h] = activeDelays[h]
    ]_vars

\* A delay decision enforced while the domain's window was active, for which
\* a restart would have moved the expiry.
C3_Witness ==
  /\ last.routed
  /\ last.dec.action = "delay"
  /\ last.window = "kept"
  /\ activeDelays[hostname(last.url)].expiresAt
       # now + last.dec.delay_seconds * MsPerSecond

\* C4 as claimed: once a domain's delay window has expired (now >= expiresAt),
\* the next navigation to the domain is decided by a new authority call, and
\* no new window for the domain is started from a decision that was fetched
\* before the expiry.
C4_ExpiredWindowRequeries ==
  [][ \A h \in Hosts :
        (activeDelays[h].has /\ now >= activeDelays[h].expiresAt) =>
          /\ \A u \in Targets : (hostname(u) = h /\ NavTo(u)) => last'.calls = 1
          /\ (activeDelays'[h].has /\ activeDelays'[h] # activeDelays[h]) =>
               last'.fetchedAt >= activeDelays[h].expiresAt
    ]_vars

\* The page that handleBlockedNavigation showed for a delay decision.
DelayPageShown == last.routed /\ last.redirect.page = "delay"

\* C5 as claimed: a delay decision enforced with no active window creates a
\* window expiring delay_seconds later and shows delay_seconds; enforced
\* while the window is active it shows exactly expiresAt - now, in seconds.
C5_DelayPageShowsExactRemainder ==
  DelayPageShown =>
    /\ last.window = "created" =>
         /\ activeDelays[hostname(last.url)].has
         /\ activeDelays[hostname(last.url)].expiresAt
              = now + last.dec.delay_seconds * MsPerSecond
         /\ last.redirect.param = last.dec.delay_seconds
    /\ last.window = "kept" =>
         last.redirect.param * MsPerSecond
           = activeDelays[hostname(last.url)].expiresAt - now

\* C5 (amended): a delay decision enforced with no active window creates a
\* window with expiresAt = now + delay_seconds * 1000 ms and shows
\* delay_seconds; enforced while the window is active it shows the remaining
\* time rounded up to whole seconds, ceil((expiresAt - now) / 1000): exactly
\* expiresAt - now when that is a whole number of seconds, and never more
\* than a second above it.
C5_DelayPageSeconds ==
  DelayPageShown =>
    /\ last.window # "none"
    /\ last.window = "created" =>
         /\ activeDelays[hostname(last.url)].has
         /\ activeDelays[hostname(last.url)].expiresAt
              = now + last.dec.delay_seconds * MsPerSecond
         /\ last.redirect.param = last.dec.delay_seconds
    /\ last.window = "kept" =>
         /\ last.redirect.param * MsPerSecond
              >= activeDelays[hostname(last.url)].expiresAt - now
         /\ (last.redirect.param - 1) * MsPerSecond
              < activeDelays[hostname(last.url)].expiresAt - now

\* The delay page shown for an active window with a fraction of a second in
\* the remaining time, and fewer seconds than the decision's delay_seconds.
C5_Witness ==
  /\ DelayPageShown
  /\ last.window = "kept"
  /\ (activeDelays[hostname(last.url)].expiresAt - now) % MsPerSecond # 0
  /\ last.redirect.param < last.dec.delay_seconds

\* C6: handling overrideBlock for T removes T's blockCache entry and the
\* window of T's domain, answers {success: true}, and leaves every other
\* cache entry, every other window, the toggle and the event log unchanged.
C6_OverrideEffect ==
  [][ last'.op = "override" =>
        /\ last'.reply = "success"
        /\ ~blockCache'[last'.url].has
        /\ ~activeDelays'[hostname(last'.url)].has
        /\ \A u \in Targets \ {last'.url} : blockCache'[u] = blockCache[u]
        /\ \A h \in Hosts \ {hostname(last'.url)} :
             activeDelays'[h] = activeDelays[h]
        /\ extensionEnabled' = extensionEnabled
        /\ syncEnabled' = syncEnabled
        /\ blockEvents' = blockEvents
        /\ storageQueue' = storageQueue
    ]_vars

\* An override that removed an entry and a window while another target's
\* entry and another domain's window were there to be kept.
C6_Witness ==
  /\ last.op = "override"
  /\ last.src = "removed"
  /\ last.window = "removed"
  /\ \E u \in Targets : u # last.url /\ blockCache[u].has
  /\ \E h \in Hosts : h # hostname(last.url) /\ activeDelays[h].has

\* C7 as claimed: after an override of T no navigation to T is decided by a
\* decision whose authority query was issued before the override, also when
\* that query was still in flight at the override.
C7_NoReplayAfterOverride ==
  ~(last.op = "nav" /\ last.src = "cache" /\ last.stale)

\* C8 as claimed: each override appends exactly one record to the local event
\* log (stored, or on its way through chrome.storage.local), besides
\* reporting the override to the authority.
C8_OverrideAppendsLocalRecord ==
  [][ last'.op = "override" =>
        /\ reports' = reports + 1
        /\ Len(blockEvents') + Len(storageQueue')
             = Len(blockEvents) + Len(storageQueue) + 1
    ]_vars

\* C8 (amended): each override reports the override to the authority exactly
\* once (one POST /api/override) and appends nothing to the local event log:
\* blockEvents holds enforcement events only.
C8_OverrideReportedOnce ==
  [][ /\ last'.op = "override" =>
           /\ reports' = reports + 1
           /\ blockEvents' = blockEvents
           /\ storageQueue' = storageQueue
      /\ \A k \in 1..Len(blockEvents') :
           blockEvents'[k].action \in { d.action : d \in Decisions }
    ]_vars

\* An override handled while the local log already held an event.
C8_Witness ==
  /\ last.op = "override"
  /\ reports = 1
  /\ blockEvents # << >>

\* C9: an override takes its local effect and is answered with success while
\* its report is still outstanding, and the report settling, resolved or
\* rejected, changes nothing of that and raises no error.
C9_OverrideIndependentOfReport ==
  [][ /\ last'.op = "override" =>
           /\ last'.reply = "success"
           /\ reports' > 0
           /\ ~blockCache'[last'.url].has
           /\ ~activeDelays'[hostname(last'.url)].has
      /\ last'.op = "report" =>
           /\ ~last'.error
           /\ blockCache' = blockCache
           /\ activeDelays' = activeDelays
           /\ extensionEnabled' = extensionEnabled
    ]_vars

\* A rejected report, after the override it reports had removed an entry.
C9_Witness ==
  /\ last.op = "report"
  /\ last.reply = "caught"
  /\ reports = 0
  /\ \E u \in Targets : ~blockCache[u].has /\ \E k \in 1..Len(blockEvents) : blockEvents[k].url = u

EnforcingActions == {"block", "delay", "conditional"}

\* C10 as claimed: for a decision from the authority or the cache, a redirect
\* and an event are produced if and only if the action is block, delay or
\* conditional; for action none there is no redirect, window or event.
C10_EnforcedByActionAlone ==
  (last.op \in {"nav", "response"} /\ last.src \in {"cache", "authority"}) =>
    /\ (last.redirect.page # "none" /\ last.logged = 1)
         <=> last.dec.action \in EnforcingActions
    /\ last.dec.action = "none" =>
         /\ last.redirect.page = "none"
         /\ last.logged = 0
         /\ last.window = "none"

\* C10 (amended): enforcement is gated by the decision's should_block flag and
\* then routed by its action: a redirect is produced if and only if
\* should_block is truthy and the action is block, delay or conditional; an
\* event is logged if and only if should_block is truthy, whatever the action;
\* with should_block falsy there is no redirect, no window and no event.
C10_EnforcedByShouldBlock ==
  [][ Decided =>
        /\ last'.redirect.page # "none"
             <=> (last'.dec.should_block /\ last'.dec.action \in EnforcingActions)
        /\ IF last'.dec.should_block
           THEN storageQueue' =
                  Append(storageQueue,
                         [event |-> [url |-> last'.url, action |-> last'.dec.action],
                          result |-> blockEvents])
           ELSE /\ storageQueue' = storageQueue
                /\ activeDelays' = activeDelays
        /\ last'.dec.action # "delay" => activeDelays' = activeDelays
    ]_vars

\* A block decision that was not enforced because should_block was falsy.
C10_Witness ==
  /\ last.op = "response"
  /\ last.dec.action = "block"
  /\ ~last.dec.should_block
  /\ last.redirect.page = "none"
  /\ storageQueue = << >>

\* C11: a navigation that is not main-frame, not http/https, to a loopback
\* host or an extension page, or that arrives while the toggle is disabled,
\* causes no authority call, no cache change, no delay-window change, no
\* redirect and no event-log append.
C11_FilteredNavigationIsNoOp ==
  [][ ( /\ last'.op = "nav"
        /\ \/ last'.frame # 0
           \/ ~extensionEnabled
           \/ last'.url.scheme \notin {"http", "https"}
           \/ last'.url.host \in {"localhost", "127.0.0.1"} ) =>
        /\ last'.calls = 0
        /\ last'.redirect = NoRedirect
        /\ last'.logged = 0
        /\ pending' = pending
        /\ blockCache' = blockCache
        /\ activeDelays' = activeDelays
        /\ storageQueue' = storageQueue
        /\ blockEvents' = blockEvents
    ]_vars

\* A main-frame navigation dropped because the toggle is off, to a target
\* whose cached decision would have been enforced.
C11_Witness ==
  /\ last.op = "nav"
  /\ last.frame = 0
  /\ last.url \in Targets
  /\ ~extensionEnabled
  /\ blockCache[last.url].has
  /\ blockCache[last.url].decision.should_block
  /\ now - blockCache[last.url].timestamp < CACHE_DURATION
  /\ last.redirect = NoRedirect

C13_DelayGrantsAccess ==
  [][ \A h \in Hosts :
        ( /\ activeDelays[h].has
          /\ now >= activeDelays[h].expiresAt
          /\ Decided
          /\ hostname(last'.url) = h
          /\ last'.dec.should_block
          /\ last'.dec.action = "delay"
          /\ blockCache[last'.url].has
          /\ blockCache[last'.url].decision = last'.dec ) =>
        /\ last'.redirect = NoRedirect
        /\ activeDelays'[h] = activeDelays[h]
    ]_vars

\* C14 as claimed: after the service worker restarts, the in-memory
\* extensionEnabled equals the persisted 'enabled' value.
C14_ToggleLoadedAtStart ==
  last.op = "restart" => extensionEnabled = syncEnabled

\* C15 as claimed: the persisted 'enabled' value changes only by a
\* toggleExtension message or the context-menu toggle (the first install
\* has happened); an install/update event that finds it stored, in
\* particular stored as false, leaves it unchanged.
C15_EnabledChangedOnlyByUser ==
  [][ /\ syncEnabled' # syncEnabled => last'.op \in {"toggle", "menu"}
      /\ last'.op = "installed" => syncEnabled' = syncEnabled
    ]_vars

\* C16 as claimed: an ok response whose payload is not of the decision shape
\* is handled like a failed call: no redirect, nothing stored in blockCache,
\* no event logged, and the next navigation to the target calls the
\* authority again.
C16_MalformedLikeUnreachable ==
  [][ /\ ( /\ last'.op = "response"
           /\ last'.dec.action \notin {"none", "block", "delay", "conditional"} ) =>
           /\ last'.redirect = NoRedirect
           /\ blockCache' = blockCache
           /\ storageQueue' = storageQueue
      /\ \A u \in Targets :
           ( /\ last.op = "response"
             /\ last.url = u
             /\ last.dec.action \notin {"none", "block", "delay", "conditional"}
             /\ NavTo(u) ) => last'.calls = 1
    ]_vars

\* C18: for a conditional decision with remaining_focus_time s >= 0 the focus
\* page is given ceiling(s / 60) minutes: 125 gives 3, 120 gives 2, 1 gives 1
\* and 0 gives 0.
C18_FocusMinutes ==
  (last.routed /\ last.dec.action = "conditional") =>
    /\ last.redirect.page = "focus"
    /\ last.redirect.param * 60 >= last.dec.remaining_focus_time
    /\ (last.redirect.param - 1) * 60 < last.dec.remaining_focus_time
    /\ last.dec.remaining_focus_time = 125 => last.redirect.param = 3
    /\ last.dec.remaining_focus_time = 120 => last.redirect.param = 2
    /\ last.dec.remaining_focus_time = 1 => last.redirect.param = 1
    /\ last.dec.remaining_focus_time = 0 => last.redirect.param = 0

\* The focus page shown with 3 minutes for 125 seconds.
C18_Witness ==
  /\ last.routed
  /\ last.dec.action = "conditional"
  /\ last.dec.remaining_focus_time = 125
  /\ last.redirect.page = "focus"
  /\ last.redirect.param = 3

C19_LookupToStoreAtomic ==
  [][ pending # << >> =>
        /\ ~(last'.op = "nav" /\ last'.src # "filtered")
        /\ last'.op \notin {"override", "toggle"}
    ]_vars

\* C20 as claimed: no redirect, window creation or event-log append happens
\* while extensionEnabled is false, also for a navigation whose authority
\* call started while the toggle was on.  Stated for the decisions with one
\* of the three enforcing actions.
C20_ToggleGatesEnforcement ==
  [][ (~extensionEnabled' /\ last'.dec.action \in {"block", "delay", "conditional"}) =>
        /\ last'.redirect = NoRedirect
        /\ activeDelays' = activeDelays
        /\ Len(storageQueue') <= Len(storageQueue)
    ]_vars

\* C21 as claimed: a decision that arrives after its tab has started a newer
\* navigation to a different target (here: one still waiting for its own
\* answer) does not redirect the tab, create a delay window or log an event;
\* it may be stored in the cache.  Stated for the decisions with one of the
\* three enforcing actions.
C21_LateDecisionDiscarded ==
  [][ \A i \in 1..Len(pending) :
        ( /\ last'.op = "response"
          /\ last'.url = pending[i].url
          /\ last'.dec.action \in {"block", "delay", "conditional"}
          /\ pending' = RemoveAt(pending, i)
          /\ \E j \in (i + 1)..Len(pending) :
               /\ pending[j].tab = pending[i].tab
               /\ pending[j].url # pending[i].url ) =>
        /\ last'.redirect = NoRedirect
        /\ activeDelays' = activeDelays
        /\ storageQueue' = storageQueue
    ]_vars

\* C22 as claimed: every enforcement event reaches the stored log and stays
\* there: each completed storage write makes the stored list one entry
\* longer (below the cap of 100), keeping what was stored, also when the
\* reads and writes of two logBlockEvent calls interleave.  Stated for the
\* events of redirections (action block, delay or conditional).
C22_EveryEventStored ==
  [][ ( /\ last'.op = "storage"
        /\ Len(blockEvents) < 100
        /\ \A k \in 1..Len(blockEvents) :
             blockEvents[k].action \in {"block", "delay", "conditional"}
        /\ Head(storageQueue).event.action \in {"block", "delay", "conditional"} ) =>
        /\ Len(blockEvents') = Len(blockEvents) + 1
        /\ \A k \in 1..Len(blockEvents) : blockEvents'[k] = blockEvents[k]
    ]_vars

\* C23 as claimed: while a domain's delay window is active (now < expiresAt),
\* every navigation to a url of the domain that gets its decision, cached or
\* fresh and whatever it says, is redirected to the delay page with the
\* remaining time (in whole seconds, rounded up).
C23_ActiveWindowGatesDomain ==
  [][ \A h \in Hosts :
        ( /\ activeDelays[h].has
          /\ now < activeDelays[h].expiresAt
          /\ Decided
          /\ hostname(last'.url) = h ) =>
        /\ last'.redirect.page = "delay"
        /\ last'.redirect.param * 1000 >= activeDelays[h].expiresAt - now
        /\ (last'.redirect.param - 1) * 1000 < activeDelays[h].expiresAt - now
    ]_vars

\* C24 as claimed, its first part: every delay window of a domain has a
\* wake-up scheduled under the domain's key (which, once expiresAt has
\* passed, is what would remove the window and notify the user).
C24_WakeUpScheduled ==
  \A h \in Hosts : activeDelays[h].has => AlarmName(h) \in alarms

\* C25: a delay decision with delay_seconds = 0 for a domain with no active
\* window creates a window for the domain whose expiresAt is the current time
\* and redirects the tab to the delay page of the target with 0 seconds; the
\* navigation is not let through.
C25_ZeroDelayStillWindowAndPage ==
  [][ \A h \in Hosts :
        ( /\ Decided
          /\ hostname(last'.url) = h
          /\ last'.dec.should_block
          /\ last'.dec.action = "delay"
          /\ last'.dec.delay_seconds = 0
          /\ ~(activeDelays[h].has /\ now < activeDelays[h].expiresAt) ) =>
        /\ activeDelays'[h] = [has |-> TRUE, expiresAt |-> now]
        /\ last'.redirect # NoRedirect
        /\ last'.redirect.page = "delay"
        /\ last'.redirect.url = last'.url
        /\ last'.redirect.param = 0 ]_vars

\* A zero-second delay decision has just been enforced for a.com: the window
\* made for it expires at the current time and the delay page shows 0 seconds.
C25_Witness ==
  /\ last.routed
  /\ last.dec.action = "delay"
  /\ last.dec.delay_seconds = 0
  /\ last.window = "created"
  /\ hostname(last.url) = "a.com"
  /\ activeDelays["a.com"] = [has |-> TRUE, expiresAt |-> now]
  /\ last.redirect.page = "delay"
  /\ last.redirect.param = 0

\* C26: a step in which handleBlockedNavigation runs issues no authority
\* call, leaves the toggle (in memory and stored) and currentSession as they
\* were and blockCache as checkBlock left it (untouched on a cache hit, the
\* fetched decision stored at the url otherwise); activeDelays changes at most
\* at the domain of the url, only for a delay decision and only when the
\* domain has no active window, and not at all for block and conditional.
C26_RouterFrame ==
  [][ last'.routed =>
        /\ last'.calls = 0
        /\ Len(pending') <= Len(pending)
        /\ reports' = reports
        /\ extensionEnabled' = extensionEnabled
        /\ syncEnabled' = syncEnabled
        /\ currentSession' = currentSession
        /\ blockCache' =
             IF last'.src = "authority"
             THEN [blockCache EXCEPT ![last'.url] =
                     [has |-> TRUE, decision |-> last'.dec, timestamp |-> now,
                      stale |-> last'.stale]]
             ELSE blockCache
        /\ \A h \in Hosts :
             activeDelays'[h] # activeDelays[h] =>
               /\ last'.dec.action = "delay"
               /\ h = hostname(last'.url)
               /\ ~(activeDelays[h].has /\ now < activeDelays[h].expiresAt)
        /\ last'.dec.action \in {"block", "conditional"} =>
             activeDelays' = activeDelays ]_vars

\* The router has just run for a delay decision fetched from the authority
\* while a session is known: it made the window of the domain, the decision is
\* in the cache, and the session is as the poll left it.
C26_Witness ==
  /\ last.routed
  /\ last.src = "authority"
  /\ last.dec.action = "delay"
  /\ last.window = "created"
  /\ activeDelays[hostname(last.url)].has
  /\ blockCache[last.url].has
  /\ currentSession = "coding"

\* C27 as claimed: every request the content script or the popup sends
\* (getStatus, getStats, toggleExtension, overrideBlock, checkUrl) is handled
\* by the dispatcher and gets a response.  When the listener returns, the
\* request has its response or the channel is held open for it ("later");
\* a channel closed without one never carries a response.
C27_EveryRequestAnswered ==
  last.op \in {"getStatus", "getStats", "toggle", "override", "checkUrl"} =>
    last.reply # "none"

====
